---- MODULE Spec2Model ----
(***************************************************************************)
(* The loader's SQL execution layer (dm/loader/db.go): construction of    *)
(* the fixed pool of DBConn (createConns), DBConn.querySQL and             *)
(* DBConn.executeSQL run under the finite retry strategy, and              *)
(* DBConn.resetConn.                                                       *)
(*                                                                         *)
(* Durations are counted in seconds.  A handle (a conn.BaseConn pointer)  *)
(* is a positive number and NilHandle the nil pointer; a handle obtained   *)
(* from the base DB is the least number naming no handle still referenced. *)
(*                                                                         *)
(* The retry loop itself (ApplyRetryStrategy, package retry) calls         *)
(* operateFn, asks IsRetryableFn about an error, waits and counts          *)
(* attempts; the actions Attempt, Decide and Backoff are its three steps.  *)
(* A resetConn made inside IsRetryableFn takes three further steps, one    *)
(* for each call on the shared base DB and one for its return.             *)
(***************************************************************************)
EXTENDS Integers, Sequences, FiniteSets

\* ---------------------------------------------------------------- bounds
MaxWorkers == 2
ConcFaults == 2
LaterFaults == 1

\* the most handles that failed calls of ForceCloseConn leave open
MaxLeaked == 1

\* ------------------------------------------------------ program constants
QueryRetryCount == 10
QueryFirstRetryDuration == 1
ExecRetryCount == 10
ExecFirstRetryDuration == 2
Uint16Range == 65536

NilHandle == 0
\* conn == nil (a nil *DBConn) and a DBConn whose baseConn is nil
NilConn == -1
ZeroConn == 0

\* ---------------------------------------------------------------- errors
NoErr == [type |-> "nil", code |-> 0, scope |-> "notset"]
ErrBadConn == [type |-> "driver.ErrBadConn", code |-> 0, scope |-> "notset"]
ErrCanceled == [type |-> "context.Canceled", code |-> 0, scope |-> "notset"]
ErrDBUnExpect == [type |-> "ErrDBUnExpect", code |-> 0, scope |-> "notset"]
ErrOpenDB == [type |-> "GetDownstreamDB", code |-> 0, scope |-> "notset"]
ErrGetConn == [type |-> "GetBaseConn", code |-> 0, scope |-> "notset"]
ErrCloseDB == [type |-> "BaseDB.Close", code |-> 0, scope |-> "notset"]
\* what database/sql returns for a call on a *sql.Conn that has been closed
ErrConnDone == [type |-> "sql.ErrConnDone", code |-> 0, scope |-> "notset"]

MySQLError(n) == [type |-> "MySQLError", code |-> n, scope |-> "notset"]

\* tmysql.ErrDBCreateExists, tmysql.ErrTableExists, tmysql.ErrDupEntry
CodeDBCreateExists == 1007
CodeTableExists == 1050
CodeDupEntry == 1062
\* the codes dbutil.IsRetryableError retries (lock wait timeout, deadlock) and
\* a code of neither class (a parse error)
RetryableCodes == {1205, 1213}
FatalCodes == {1064}

\* terror.WithScope: a nil error stays nil
WithScope(err, scope) ==
    IF err = NoErr THEN NoErr ELSE [err EXCEPT !.scope = scope]

\* retry.IsConnectionError
IsConnectionError(err) == err.type = "driver.ErrBadConn"

\* dbutil.IsRetryableError
IsRetryableError(err) ==
    err.type = "MySQLError" /\ err.code \in RetryableCodes

\* conn.IsMySQLError
IsMySQLError(err, code) == err.type = "MySQLError" /\ err.code = code

isErrDBExists(err) == IsMySQLError(err, CodeDBCreateExists)

isErrTableExists(err) == IsMySQLError(err, CodeTableExists)

isErrDupEntry(err) == IsMySQLError(err, CodeDupEntry)

\* what one call of BaseConn.QuerySQL / BaseConn.ExecuteSQL can return
DBOutcomes ==
    {NoErr, ErrBadConn, MySQLError(CodeTableExists), MySQLError(CodeDupEntry)}
        \cup {MySQLError(n) : n \in {1213} \cup FatalCodes}

\* what BaseConn.QuerySQL / BaseConn.ExecuteSQL returns: the database call
\* observes the cancellation of its context and then returns the context's
\* error; on a handle that has been closed it fails, with an error that may
\* or may not be classed as a connection error
BaseConnResults(cancelled, closed) ==
    IF cancelled THEN {ErrCanceled}
    ELSE IF closed THEN {ErrConnDone, ErrBadConn}
    ELSE DBOutcomes

\* ------------------------------------------------------- statement texts
\* a statement is a sequence of words
StmtCreate == <<"CREATE", "TABLE", "t">>
StmtInsert == <<"INSERT", "INTO", "t">>

QueryBatches == {<<StmtInsert>>}
ExecBatches == {<< >>, <<StmtCreate>>, <<StmtInsert>>, <<StmtCreate, StmtInsert>>}

\* strings.Contains
Contains(s, sub) ==
    \E k \in 0..(Len(s) - Len(sub)) :
        \A j \in 1..Len(sub) : s[k + j] = sub[j]

\* strconv.ParseUint(val, 10, 16) on a sequence of decimal digits
RECURSIVE DigitsValue(_)
DigitsValue(ds) ==
    IF ds = << >> THEN 0
    ELSE 10 * DigitsValue(SubSeq(ds, 1, Len(ds) - 1)) + ds[Len(ds)]

ParseUint(ds) ==
    IF ds = << >> \/ (\E k \in 1..Len(ds) : ds[k] \notin 0..9)
        \/ DigitsValue(ds) >= Uint16Range
    THEN [ok |-> FALSE, n |-> 0]
    ELSE [ok |-> TRUE, n |-> DigitsValue(ds)]

\* the failpoint LoadExecCreateTableFailed: off, or armed with a value
FailpointOff == [on |-> FALSE, val |-> << >>]
FailpointInputs ==
    {FailpointOff,
     [on |-> TRUE, val |-> <<1, 0, 5, 0>>],
     [on |-> TRUE, val |-> <<1, 2, 1, 3>>],
     [on |-> TRUE, val |-> <<7, 0, 0, 0, 0>>]}

\* ----------------------------------------------------------------- state
VARIABLES
    workerCount,  \* the argument of createConns
    crPc,         \* createConns: "start", "loop", "returned"
    crConns,      \* createConns' local slice conns
    crGets,       \* GetBaseConn calls made by createConns
    crLogged,     \* "failed to close baseDB" was logged
    crFault,      \* the call that failed in createConns: "none", "open", "conn"
    baseDB,       \* "nil", "open", "closed", "closeFailed"
    dbCloses,     \* calls of baseDB.Close
    live,         \* handles the base DB has handed out and not closed
    ret,          \* what createConns returned: [db, conns, err]
    baseConn,     \* DBConn.baseConn of each connection
    w,            \* the operation each connection is running
    counter,      \* tidbExecutionErrorCounter{name, sourceID}
    failpoint,    \* LoadExecCreateTableFailed
    callers,      \* "one": the operations on the pool are called one after
                  \* the other; "perConn": every worker calls its
                  \* operations on its own connection, side by side
    begun,        \* an operation has been called
    spent,        \* attempts that failed in the operations the run bounds
    faultLimit    \* the most that spent may reach

vars ==
    <<workerCount, crPc, crConns, crGets, crLogged, crFault, baseDB, dbCloses,
      live,
      ret, baseConn, w, counter, failpoint, callers, begun, spent, faultLimit>>

crVars == <<crPc, crConns, crGets, crLogged, crFault, baseDB, dbCloses, ret>>

\* what no step of the program changes
runVars == <<workerCount, failpoint, callers, faultLimit>>

ConnIds == NilConn..MaxWorkers

NoRet == [db |-> "none", conns |-> << >>, err |-> NoErr]

IdleW ==
    [pc |-> "idle", kind |-> "none", queries |-> << >>, i |-> 0,
     err |-> NoErr, rerr |-> NoErr, attempts |-> 0, resets |-> 0,
     nCL |-> 0, nRT |-> 0, dbCalls |-> 0, delays |-> << >>,
     duration |-> 0, resetFailed |-> FALSE, resetErr |-> NoErr,
     cancelled |-> FALSE, cancelAt |-> "none", cancelAttempts |-> 0,
     dbErr |-> NoErr, used |-> NilHandle, calls |-> << >>,
     got |-> NilHandle, limited |-> FALSE,
     h0 |-> NilHandle, cnt0 |-> 0]

\* the state before createConns is called
InitWith(who, faults) ==
    /\ workerCount \in 1..MaxWorkers
    /\ crPc = "start"
    /\ crConns = << >>
    /\ crGets = 0
    /\ crLogged = FALSE
    /\ crFault = "none"
    /\ baseDB = "nil"
    /\ dbCloses = 0
    /\ live = {}
    /\ ret = NoRet
    /\ baseConn = [c \in ConnIds |-> NilHandle]
    /\ w = [c \in ConnIds |-> IdleW]
    /\ counter = 0
    /\ failpoint \in FailpointInputs
    /\ callers = who
    /\ begun = FALSE
    /\ spent = 0
    /\ faultLimit = faults

\* createConns, then operations called one after the other on any of the
\* connections; the attempts of the first may fail as often as RetryCount
\* allows, those of the later ones LaterFaults times in all
Init == InitWith("one", LaterFaults)

\* ------------------------------------------------------------ the base DB
\* the handles the DBConn values reference: while createConns builds them
\* the handles it has wrapped, afterwards the baseConn fields of the
\* connections it returned
Held ==
    IF crPc = "returned"
    THEN {baseConn[c] : c \in 1..Len(ret.conns)}
    ELSE {crConns[k].baseConn : k \in 1..Len(crConns)}

\* BaseDB.GetBaseConn, on success: a handle no one references
NewHandle ==
    CHOOSE h \in 1..(Cardinality(live \cup Held) + 1) :
        /\ h \notin live \cup Held
        /\ \A g \in 1..(h - 1) : g \in live \cup Held

\* the open handles no connection references and no resetConn has obtained
Leaked == live \ (Held \cup {w[c].got : c \in ConnIds})

\* BaseDB.ForceCloseConn: the open handles after the call, which has closed
\* h or, when it returns an error, may have left it open
ForceCloseConn(h, closed) == IF closed THEN live \ {h} ELSE live

\* a call the recovery makes on the base DB: the function, its handle (the
\* argument of ForceCloseConn, the result of GetBaseConn), whether it failed
BaseDBCall(fn, h, failed) == [fn |-> fn, h |-> h, failed |-> failed]

\* ------------------------------------------------------------ createConns
\* faulty variant: every DBConn is built on the handle of the first one
NewDBConnFirst(h) ==
    [baseConn |-> IF crConns = << >> THEN h ELSE crConns[1].baseConn,
     name |-> "name", sourceID |-> "sourceID", resetBaseConnFn |-> "baseDB"]

\* &DBConn{baseConn: baseConn, name: name, sourceID: sourceID,
\*         resetBaseConnFn: resetBaseConnFn}
NewDBConn(h) ==
    [baseConn |-> h, name |-> "name", sourceID |-> "sourceID",
     resetBaseConnFn |-> "baseDB"]

\* return nil, nil, terror.WithScope(err, terror.ScopeDownstream), after
\* GetDownstreamDB failed
createConnsOpenFailed(err) ==
    [db |-> "none", conns |-> << >>, err |-> WithScope(err, "downstream")]

\* faulty variant: the connections built so far are returned with the error
createConnsConnFailedPartial(conns, err, terr) ==
    [db |-> "none", conns |-> conns, err |-> WithScope(err, "downstream")]

\* faulty variant: the error of baseDB.Close replaces the error returned
createConnsConnFailedCloseErr(conns, err, terr) ==
    [db |-> "none", conns |-> << >>,
     err |-> WithScope(IF terr # NoErr THEN terr ELSE err, "downstream")]

\* the same return after GetBaseConn failed; terr of baseDB.Close is logged
createConnsConnFailed(conns, err, terr) ==
    [db |-> "none", conns |-> << >>, err |-> WithScope(err, "downstream")]

\* return baseDB, conns, nil
createConnsDone(conns) == [db |-> "baseDB", conns |-> conns, err |-> NoErr]

\* conn.GetDownstreamDB(&cfg.To) and the return on its failure
CreateOpenDB ==
    /\ crPc = "start"
    /\ \E fail \in BOOLEAN :
        IF fail
        THEN /\ crPc' = "returned"
             /\ crFault' = "open"
             /\ ret' = createConnsOpenFailed(ErrOpenDB)
             /\ baseDB' = baseDB
        ELSE /\ crPc' = "loop"
             /\ baseDB' = "open"
             /\ UNCHANGED <<crFault, ret>>
    /\ UNCHANGED <<runVars, crConns, crGets, crLogged, dbCloses, live,
                   baseConn, w, counter, begun, spent>>

\* one turn of the loop for i := 0; i < workerCount; i++, or the final return
CreateLoop ==
    /\ crPc = "loop"
    /\ IF Len(crConns) < workerCount
       THEN \E fail \in BOOLEAN, closeFail \in BOOLEAN :
            /\ crGets' = crGets + 1
            /\ IF fail
               THEN /\ dbCloses' = dbCloses + 1
                    /\ baseDB' = IF closeFail THEN "closeFailed" ELSE "closed"
                    /\ crLogged' = closeFail
                    /\ crFault' = "conn"
                    /\ live' = {}
                    /\ crPc' = "returned"
                    /\ ret' = createConnsConnFailed(crConns, ErrGetConn,
                                IF closeFail THEN ErrCloseDB ELSE NoErr)
                    /\ UNCHANGED <<crConns, baseConn>>
               ELSE /\ crConns' = Append(crConns, NewDBConn(NewHandle))
                    /\ live' = live \cup {NewHandle}
                    /\ UNCHANGED <<dbCloses, baseDB, crLogged, crFault, crPc,
                                   ret, baseConn>>
       ELSE /\ crPc' = "returned"
            /\ ret' = createConnsDone(crConns)
            /\ baseConn' = [c \in ConnIds |->
                              IF c \in 1..Len(createConnsDone(crConns).conns)
                              THEN createConnsDone(crConns).conns[c].baseConn
                              ELSE NilHandle]
            /\ UNCHANGED <<crConns, crGets, crLogged, crFault, baseDB,
                           dbCloses, live>>
    /\ UNCHANGED <<runVars, w, counter, begun, spent>>

\* ------------------------------------------------- recovery (resetConn)
\* faulty variant: the error of ForceCloseConn is returned and GetBaseConn is
\* not called
resetBaseConnFnStopsOnCloseErr(closeFail) ==
    [logged |-> closeFail,
     next |-> IF closeFail THEN "return" ELSE "GetBaseConn",
     err |-> IF closeFail THEN ErrCloseDB ELSE NoErr]

\* the closure resetBaseConnFn once baseDB.ForceCloseConn(baseConn) has
\* returned: its error is only logged, and the closure goes on to return
\* what baseDB.GetBaseConn returns
resetBaseConnFn(closeFail) ==
    [logged |-> closeFail, next |-> "GetBaseConn", err |-> NoErr]

\* faulty variant: the closure is given the handle of the first connection
resetConnFirstHandle(c, got, gerr) ==
    [arg |-> baseConn[1],
     err |-> gerr,
     baseConn |-> IF gerr # NoErr THEN baseConn[c] ELSE got]

\* faulty variant: conn.baseConn is assigned before the error is tested
resetConnAssignsFirst(c, got, gerr) ==
    [arg |-> baseConn[c],
     err |-> gerr,
     baseConn |-> got]

\* DBConn.resetConn: the closure is given conn.baseConn; when it has returned
\* the handle got and the error gerr, conn.baseConn is assigned only if gerr
\* is nil
resetConn(c, got, gerr) ==
    [arg |-> baseConn[c],
     err |-> gerr,
     baseConn |-> IF gerr # NoErr THEN baseConn[c] ELSE got]

\* --------------------------------------------------------- retry.Params
\* faulty variant: one attempt fewer
querySQLParamsShort ==
    [RetryCount |-> QueryRetryCount - 1,
     FirstRetryDuration |-> QueryFirstRetryDuration,
     BackoffStrategy |-> "Stable"]

querySQLParams ==
    [RetryCount |-> QueryRetryCount,
     FirstRetryDuration |-> QueryFirstRetryDuration,
     BackoffStrategy |-> "Stable"]

\* faulty variant: one attempt more
executeSQLParamsLong ==
    [RetryCount |-> ExecRetryCount + 1,
     FirstRetryDuration |-> ExecFirstRetryDuration,
     BackoffStrategy |-> "LinearIncrease"]

\* faulty variant: the backoff of querySQL
executeSQLParamsStable ==
    [RetryCount |-> ExecRetryCount,
     FirstRetryDuration |-> ExecFirstRetryDuration,
     BackoffStrategy |-> "Stable"]

executeSQLParams ==
    [RetryCount |-> ExecRetryCount,
     FirstRetryDuration |-> ExecFirstRetryDuration,
     BackoffStrategy |-> "LinearIncrease"]

Params(kind) == IF kind = "query" THEN querySQLParams ELSE executeSQLParams

\* -------------------------------------------------------- IsRetryableFn
\* IsRetryableFn answers in two parts: inc (the counter is incremented) and
\* reset (resetConn is called) are known from the error of the attempt;
\* retry, the bool returned, also depends on resetErr, the error of
\* resetConn, when it was called.

\* faulty variant: no resetConn after the last attempt, which is not retried
querySQLIsRetryableFnSkipsLast(c, err, resetErr) ==
    IF IsConnectionError(err) /\ w[c].i + 1 < QueryRetryCount
    THEN [inc |-> 0, reset |-> TRUE, retry |-> resetErr = NoErr]
    ELSE [inc |-> 0, reset |-> FALSE,
          retry |-> IsConnectionError(err) \/ IsRetryableError(err)]

\* faulty variant: resetConn is called for every error
querySQLIsRetryableFnResetAll(c, err, resetErr) ==
    IF IsConnectionError(err)
    THEN [inc |-> 0, reset |-> TRUE, retry |-> resetErr = NoErr]
    ELSE [inc |-> 0, reset |-> TRUE, retry |-> IsRetryableError(err)]

\* faulty variant: a connection error is retried without resetConn
querySQLIsRetryableFnNoReset(c, err, resetErr) ==
    [inc |-> 0, reset |-> FALSE,
     retry |-> IsConnectionError(err) \/ IsRetryableError(err)]

\* IsRetryableFn of querySQL.  The error of resetConn is assigned to the
\* closure's own parameter err and logged; the closure returns a bool only.
querySQLIsRetryableFn(c, err, resetErr) ==
    IF IsConnectionError(err)
    THEN [inc |-> 0, reset |-> TRUE, retry |-> resetErr = NoErr]
    ELSE [inc |-> 0, reset |-> FALSE, retry |-> IsRetryableError(err)]

\* faulty variant: the counter is incremented only for the errors that are
\* retried without a reset
executeSQLIsRetryableFnIncRetried(c, err, resetErr) ==
    IF IsConnectionError(err)
    THEN [inc |-> 0, reset |-> TRUE, retry |-> resetErr = NoErr]
    ELSE [inc |-> IF IsRetryableError(err) THEN 1 ELSE 0, reset |-> FALSE,
          retry |-> IsRetryableError(err)]

\* faulty variant: the attempt is retried although resetConn failed
executeSQLIsRetryableFnKeepsOn(c, err, resetErr) ==
    IF IsConnectionError(err)
    THEN [inc |-> 1, reset |-> TRUE, retry |-> TRUE]
    ELSE [inc |-> 1, reset |-> FALSE, retry |-> IsRetryableError(err)]

\* faulty variant: every error that is no connection error is retried
executeSQLIsRetryableFnRetryAll(c, err, resetErr) ==
    IF IsConnectionError(err)
    THEN [inc |-> 1, reset |-> TRUE, retry |-> resetErr = NoErr]
    ELSE [inc |-> 1, reset |-> FALSE, retry |-> TRUE]

\* IsRetryableFn of executeSQL: the same, after tidbExecutionErrorCounter.Inc()
executeSQLIsRetryableFn(c, err, resetErr) ==
    IF IsConnectionError(err)
    THEN [inc |-> 1, reset |-> TRUE, retry |-> resetErr = NoErr]
    ELSE [inc |-> 1, reset |-> FALSE, retry |-> IsRetryableError(err)]

IsRetryableFn(kind, c, err, resetErr) ==
    IF kind = "query" THEN querySQLIsRetryableFn(c, err, resetErr)
    ELSE executeSQLIsRetryableFn(c, err, resetErr)

\* ------------------------------------------------------------ operateFn
\* querySQL's operateFn: the error of QuerySQL, or of ret.Err()
querySQLOperateFn(out) == [fatal |-> FALSE, err |-> out]

\* faulty variant: the failpoint does not test the length of the batch
executeSQLOperateFnAnyBatch(queries, out) ==
    IF ~failpoint.on THEN [fatal |-> FALSE, err |-> out]
    ELSE IF ~ParseUint(failpoint.val).ok THEN [fatal |-> TRUE, err |-> out]
    ELSE IF Len(queries) >= 1 /\ Contains(queries[1], <<"CREATE", "TABLE">>)
    THEN [fatal |-> FALSE,
          err |-> MySQLError(ParseUint(failpoint.val).n % Uint16Range)]
    ELSE [fatal |-> FALSE, err |-> out]

\* executeSQL's operateFn: the error of ExecuteSQL, replaced by the failpoint
\* for a batch of one statement containing CREATE TABLE; a value that does not
\* parse ends the process (ctx.L().Fatal)
executeSQLOperateFn(queries, out) ==
    IF ~failpoint.on THEN [fatal |-> FALSE, err |-> out]
    ELSE IF ~ParseUint(failpoint.val).ok THEN [fatal |-> TRUE, err |-> out]
    ELSE IF Len(queries) = 1 /\ Contains(queries[1], <<"CREATE", "TABLE">>)
    THEN [fatal |-> FALSE,
          err |-> MySQLError(ParseUint(failpoint.val).n % Uint16Range)]
    ELSE [fatal |-> FALSE, err |-> out]

OperateFn(kind, queries, out) ==
    IF kind = "query" THEN querySQLOperateFn(out)
    ELSE executeSQLOperateFn(queries, out)

\* ------------------------------------------- the finite retry strategy
\* the delay before the attempt after attempt number i (from 0)
BackoffDuration(params, i) ==
    IF params.BackoffStrategy = "LinearIncrease"
    THEN (i + 1) * params.FirstRetryDuration
    ELSE params.FirstRetryDuration

\* after operateFn: a nil error ends the loop with success
ApplyAfterAttempt(err) == IF err = NoErr THEN "return" ELSE "decide"

\* after IsRetryableFn: false ends the loop with the error of the attempt
ApplyAfterDecision(retry) == IF retry THEN "backoff" ELSE "return"

\* the wait, cut short by cancellation, and the loop's i++ and i < RetryCount
ApplyAfterBackoff(params, i, cancelled) ==
    IF cancelled THEN "cancel"
    ELSE IF i + 1 < params.RetryCount THEN "attempt"
    ELSE "return"

\* the error of an operation stopped by cancellation during its backoff wait
CancelledResult(err) == ErrCanceled

\* ------------------------------------------------ querySQL and executeSQL
\* conn == nil || conn.baseConn == nil
ConnInvalid(c) == c = NilConn \/ baseConn[c] = NilHandle

\* faulty variant: querySQL without its check of the connection
querySQLEntryUnchecked(c) == "run"

\* the checks querySQL makes before it builds retry.Params
querySQLEntry(c) == IF ConnInvalid(c) THEN "invalid" ELSE "run"

\* faulty variant: executeSQL checks the connection before the batch
executeSQLEntryConnFirst(c, queries) ==
    IF ConnInvalid(c) THEN "invalid"
    ELSE IF Len(queries) = 0 THEN "empty"
    ELSE "run"

\* the checks executeSQL makes before it builds retry.Params
executeSQLEntry(c, queries) ==
    IF Len(queries) = 0 THEN "empty"
    ELSE IF ConnInvalid(c) THEN "invalid"
    ELSE "run"

Entry(kind, c, queries) ==
    IF kind = "query" THEN querySQLEntry(c) ELSE executeSQLEntry(c, queries)

\* faulty variant: a cancellation is filtered out of the error returned, as
\* it is filtered out of the log
querySQLReturnFiltered(err) == IF err = ErrCanceled THEN NoErr ELSE err

\* the error querySQL / executeSQL hands to its caller after ApplyRetryStrategy
querySQLReturn(err) == err

executeSQLReturn(err) == err

Return(kind, err) ==
    IF kind = "query" THEN querySQLReturn(err) ELSE executeSQLReturn(err)

Exited == \E c \in ConnIds : w[c].pc = "fatal"

Usable == {NilConn, ZeroConn} \cup 1..Len(ret.conns)

InFlight == {c \in ConnIds : w[c].pc \notin {"idle"}}

\* a caller invokes querySQL or executeSQL on connection c, on which no
\* operation is running
Begin(c) ==
    /\ crPc = "returned"
    /\ ~Exited
    /\ c \in Usable
    /\ w[c].pc \in {"idle", "done"}
    /\ callers = "one" => InFlight \subseteq {c}
    /\ callers = "perConn" => c \in 1..workerCount
    /\ \E kind \in {"query", "execute"} :
       \E queries \in (IF kind = "query" THEN QueryBatches ELSE ExecBatches) :
        LET e == Entry(kind, c, queries)
            b == [IdleW EXCEPT !.kind = kind, !.queries = queries,
                               !.h0 = baseConn[c], !.cnt0 = counter,
                               !.limited = (callers = "perConn" \/ begun)]
        IN  w' = [w EXCEPT ![c] =
                IF e = "empty" THEN [b EXCEPT !.pc = "done", !.rerr = NoErr]
                ELSE IF e = "invalid"
                THEN [b EXCEPT !.pc = "done", !.rerr = ErrDBUnExpect]
                ELSE [b EXCEPT !.pc = "attempt"]]
    /\ begun' = TRUE
    /\ UNCHANGED <<runVars, crVars, live, baseConn, counter, spent>>

\* one call of operateFn on what the database call returns
Attempt(c) ==
    /\ ~Exited
    /\ w[c].pc = "attempt"
    /\ \E out \in BaseConnResults(w[c].cancelled, baseConn[c] \notin live) :
        LET o == OperateFn(w[c].kind, w[c].queries, out)
            fault == o.err # NoErr /\ w[c].limited
            a == [w[c] EXCEPT !.attempts = @ + 1, !.dbCalls = @ + 1,
                              !.err = o.err, !.dbErr = out,
                              !.used = baseConn[c]]
        IN  /\ fault => spent < faultLimit
            /\ spent' = IF fault THEN spent + 1 ELSE spent
            /\ w' = [w EXCEPT ![c] =
                    IF o.fatal THEN [a EXCEPT !.pc = "fatal"]
                    ELSE IF ApplyAfterAttempt(o.err) = "return"
                    THEN [a EXCEPT !.pc = "done",
                                   !.rerr = Return(w[c].kind, NoErr)]
                    ELSE [a EXCEPT !.pc = "decide"]]
    /\ UNCHANGED <<runVars, crVars, live, baseConn, counter, begun>>

\* IsRetryableFn is called on the error of the attempt: the counter, the
\* test of the error and, if no resetConn is due, the answer; a false answer
\* ends the loop
Decide(c) ==
    /\ ~Exited
    /\ w[c].pc = "decide"
    /\ LET d == IsRetryableFn(w[c].kind, c, w[c].err, NoErr)
           p == Params(w[c].kind)
           a == [w[c] EXCEPT
                   !.resets = IF d.reset THEN @ + 1 ELSE @,
                   !.nCL = IF IsConnectionError(w[c].err) THEN @ + 1 ELSE @,
                   !.nRT = IF ~IsConnectionError(w[c].err)
                              /\ IsRetryableError(w[c].err) THEN @ + 1 ELSE @,
                   !.resetFailed = FALSE,
                   !.resetErr = NoErr,
                   !.calls = IF d.reset THEN << >> ELSE @]
       IN  /\ counter' = counter + d.inc
           /\ w' = [w EXCEPT ![c] =
                   IF d.reset THEN [a EXCEPT !.pc = "close"]
                   ELSE IF ApplyAfterDecision(d.retry) = "backoff"
                   THEN [a EXCEPT !.pc = "backoff",
                                  !.duration = BackoffDuration(p, w[c].i)]
                   ELSE [a EXCEPT !.pc = "done",
                                  !.rerr = Return(w[c].kind, w[c].err)]]
    /\ UNCHANGED <<runVars, crVars, live, baseConn, begun, spent>>

\* resetConn calls the closure, which calls baseDB.ForceCloseConn
ResetClose(c) ==
    /\ ~Exited
    /\ w[c].pc = "close"
    /\ \E closeFail \in BOOLEAN :
       \E closed \in (IF closeFail /\ Cardinality(Leaked) < MaxLeaked
                      THEN BOOLEAN ELSE {TRUE}) :
        LET arg == resetConn(c, NilHandle, NoErr).arg
            f == resetBaseConnFn(closeFail)
            a == [w[c] EXCEPT
                    !.calls = <<BaseDBCall("ForceCloseConn", arg, closeFail)>>]
        IN  /\ live' = ForceCloseConn(arg, closed)
            /\ w' = [w EXCEPT ![c] =
                    IF f.next = "GetBaseConn" THEN [a EXCEPT !.pc = "get"]
                    ELSE [a EXCEPT !.pc = "assign", !.got = NilHandle,
                                   !.resetErr = f.err]]
    /\ UNCHANGED <<runVars, crVars, baseConn, counter, begun, spent>>

\* the closure returns baseDB.GetBaseConn(tctx.Context()), which fails under
\* a cancelled context
ResetGet(c) ==
    /\ ~Exited
    /\ w[c].pc = "get"
    /\ \E getFail \in (IF w[c].cancelled THEN {TRUE} ELSE BOOLEAN) :
        LET got == IF getFail THEN NilHandle ELSE NewHandle
        IN  /\ live' = IF getFail THEN live ELSE live \cup {got}
            /\ w' = [w EXCEPT ![c] =
                    [@ EXCEPT !.pc = "assign",
                              !.got = got,
                              !.resetErr = IF getFail THEN ErrGetConn ELSE NoErr,
                              !.calls = Append(@, BaseDBCall("GetBaseConn",
                                                             got, getFail))]]
    /\ UNCHANGED <<runVars, crVars, baseConn, counter, begun, spent>>

\* the closure has returned: resetConn assigns conn.baseConn or returns the
\* error, and IsRetryableFn answers
ResetReturn(c) ==
    /\ ~Exited
    /\ w[c].pc = "assign"
    /\ LET r == resetConn(c, w[c].got, w[c].resetErr)
           d == IsRetryableFn(w[c].kind, c, w[c].err, r.err)
           p == Params(w[c].kind)
           a == [w[c] EXCEPT !.resetFailed = r.err # NoErr,
                             !.resetErr = r.err,
                             !.got = NilHandle]
       IN  /\ baseConn' = [baseConn EXCEPT ![c] = r.baseConn]
           /\ w' = [w EXCEPT ![c] =
                   IF ApplyAfterDecision(d.retry) = "backoff"
                   THEN [a EXCEPT !.pc = "backoff",
                                  !.duration = BackoffDuration(p, w[c].i)]
                   ELSE [a EXCEPT !.pc = "done",
                                  !.rerr = Return(w[c].kind, w[c].err)]]
    /\ UNCHANGED <<runVars, crVars, live, counter, begun, spent>>

\* the wait before the next attempt, and the loop's i++ and i < RetryCount
Backoff(c) ==
    /\ ~Exited
    /\ w[c].pc = "backoff"
    /\ LET p == Params(w[c].kind)
           n == ApplyAfterBackoff(p, w[c].i, w[c].cancelled)
       IN  w' = [w EXCEPT ![c] =
               IF n = "cancel"
               THEN [@ EXCEPT !.pc = "done",
                              !.rerr = Return(w[c].kind, CancelledResult(w[c].err))]
               ELSE IF n = "attempt"
               THEN [@ EXCEPT !.pc = "attempt", !.i = @ + 1,
                              !.delays = Append(@, w[c].duration)]
               ELSE [@ EXCEPT !.pc = "done", !.i = @ + 1,
                              !.delays = Append(@, w[c].duration),
                              !.rerr = Return(w[c].kind, w[c].err)]]
    /\ UNCHANGED <<runVars, crVars, live, baseConn, counter, begun, spent>>

\* the caller cancels the context of the operation running on c
Cancel(c) ==
    /\ ~Exited
    /\ w[c].pc \in {"attempt", "decide", "close", "get", "assign", "backoff"}
    /\ ~w[c].cancelled
    /\ w' = [w EXCEPT ![c].cancelled = TRUE, ![c].cancelAt = w[c].pc,
                       ![c].cancelAttempts = w[c].attempts]
    /\ UNCHANGED <<runVars, crVars, live, baseConn, counter, begun, spent>>

\* querySQL or executeSQL has returned to its caller
Finish(c) ==
    /\ ~Exited
    /\ w[c].pc = "done"
    /\ w' = [w EXCEPT ![c] = IdleW]
    /\ UNCHANGED <<runVars, crVars, live, baseConn, counter, begun, spent>>

Next ==
    \/ CreateOpenDB
    \/ CreateLoop
    \/ \E c \in ConnIds : Begin(c)
    \/ \E c \in ConnIds : Attempt(c)
    \/ \E c \in ConnIds : Decide(c)
    \/ \E c \in ConnIds : ResetClose(c)
    \/ \E c \in ConnIds : ResetGet(c)
    \/ \E c \in ConnIds : ResetReturn(c)
    \/ \E c \in ConnIds : Backoff(c)
    \/ \E c \in ConnIds : Cancel(c)
    \/ \E c \in ConnIds : Finish(c)

Spec == Init /\ [][Next]_vars

\* createConns, then the workers call their operations side by side, each on
\* its own connection; ConcFaults bounds the attempts that fail
InitConc == InitWith("perConn", ConcFaults) /\ failpoint = FailpointOff

SpecConc == InitConc /\ [][Next]_vars

\* ======================================================== properties
Started(c) == w[c].pc # "idle"

\* the operation on c is in its retry loop
Running(c) ==
    w[c].pc \in {"attempt", "decide", "close", "get", "assign", "backoff"}

\* a step that leaves the returned operation on c as it is, hands it to its
\* caller, or is a new call on c; none changes the handle
StaysReturned(c) ==
    /\ baseConn'[c] = baseConn[c]
    /\ \/ w'[c] = w[c]
       \/ w'[c] = IdleW
       \/ /\ w'[c].pc \in {"attempt", "done"}
          /\ w'[c].attempts = 0 /\ w'[c].dbCalls = 0
          /\ w'[c].resets = 0 /\ w'[c].delays = << >>

\* C1: createConns is all-or-nothing.  Whatever calls fail, it returns
\* either no error, the pool and exactly workerCount connections, each with
\* a handle and its recovery closure, or an error, no pool and no connection.
C1_AllOrNothing ==
    crPc = "returned" =>
        \/ /\ ret.err = NoErr
           /\ ret.db = "baseDB"
           /\ Len(ret.conns) = workerCount
           /\ \A k \in 1..Len(ret.conns) :
                /\ ret.conns[k].baseConn # NilHandle
                /\ ret.conns[k].resetBaseConnFn = "baseDB"
        \/ /\ ret.err # NoErr
           /\ ret.db = "none"
           /\ ret.conns = << >>

\* createConns failed after it had built a connection
C1_Witness ==
    crPc = "returned" /\ crFault = "conn" /\ Len(crConns) >= 1

\* C2: when GetBaseConn fails for some connection, baseDB.Close has been
\* called when createConns returns and the error returned is the error of
\* GetBaseConn with the downstream scope, whether or not Close failed; when
\* GetDownstreamDB fails, GetBaseConn is never called and the error returned
\* has the downstream scope.
C2_FailureReturn ==
    crPc = "returned" =>
        /\ crFault = "conn" =>
              /\ dbCloses = 1
              /\ baseDB \in {"closed", "closeFailed"}
              /\ ret.err = [ErrGetConn EXCEPT !.scope = "downstream"]
        /\ crFault = "open" =>
              /\ crGets = 0
              /\ dbCloses = 0
              /\ ret.err = [ErrOpenDB EXCEPT !.scope = "downstream"]

\* GetBaseConn failed and then baseDB.Close failed too
C2_Witness ==
    crPc = "returned" /\ crFault = "conn" /\ crLogged
        /\ baseDB = "closeFailed"

\* C3 as stated: querySQL and executeSQL on a nil connection, or on one
\* with a nil baseConn, fail with ErrDBUnExpect and make no database call,
\* no recovery and no retry, for every statement list.
C3_Original ==
    \A c \in ConnIds :
        Started(c) /\ ConnInvalid(c) =>
            /\ w[c].pc = "done"
            /\ w[c].rerr = ErrDBUnExpect
            /\ w[c].dbCalls = 0 /\ w[c].attempts = 0
            /\ w[c].resets = 0 /\ w[c].delays = << >>

\* C3, amended: the same for querySQL and for executeSQL with a batch that
\* is not empty.
C3_InvalidConnection ==
    \A c \in ConnIds :
        /\ Started(c) /\ ConnInvalid(c)
        /\ (w[c].kind = "query" \/ w[c].queries # << >>)
        => /\ w[c].pc = "done"
           /\ w[c].rerr = ErrDBUnExpect
           /\ w[c].dbCalls = 0 /\ w[c].attempts = 0
           /\ w[c].resets = 0 /\ w[c].delays = << >>

\* executeSQL with a batch of one statement has been refused on a nil
\* connection
C3_Witness ==
    /\ w[NilConn].pc = "done" /\ w[NilConn].kind = "execute"
    /\ Len(w[NilConn].queries) = 1 /\ w[NilConn].rerr = ErrDBUnExpect

\* C4: executeSQL with an empty batch returns nil and changes nothing: no
\* database call, no recovery, the same baseConn, the same value of
\* tidbExecutionErrorCounter, on any connection and with the failpoint armed
\* or not.
C4_EmptyBatch ==
    \A c \in ConnIds :
        Started(c) /\ w[c].kind = "execute" /\ w[c].queries = << >> =>
            /\ w[c].pc = "done"
            /\ w[c].rerr = NoErr
            /\ w[c].dbCalls = 0 /\ w[c].attempts = 0 /\ w[c].resets = 0
            /\ baseConn[c] = w[c].h0
            /\ counter = w[c].cnt0

\* an empty batch has been run on a nil connection with the failpoint armed
C4_Witness ==
    /\ failpoint.on
    /\ w[NilConn].pc = "done" /\ w[NilConn].kind = "execute"
    /\ w[NilConn].queries = << >> /\ w[NilConn].rerr = NoErr

\* C5: when the first k < RetryCount attempts of an operation each fail with
\* a connection error and each resetConn succeeds, and attempt k+1 succeeds,
\* the operation returns nil after k+1 attempts and k calls of resetConn.
C5_RecoverThenSucceed ==
    \A c \in ConnIds :
        /\ w[c].pc = "done" /\ w[c].attempts >= 1 /\ w[c].err = NoErr
        /\ w[c].nCL = w[c].attempts - 1
        => /\ w[c].rerr = NoErr
           /\ w[c].resets = w[c].attempts - 1
           /\ ~w[c].resetFailed
           /\ w[c].dbCalls = w[c].attempts
           /\ w[c].attempts <= Params(w[c].kind).RetryCount

\* k = RetryCount - 1: nine connection errors, then success on the tenth
\* attempt
C5_Witness ==
    \E c \in ConnIds :
        /\ w[c].pc = "done" /\ w[c].rerr = NoErr
        /\ w[c].attempts = Params(w[c].kind).RetryCount
        /\ w[c].nCL = w[c].attempts - 1 /\ w[c].resets = w[c].nCL

C6_Step(c) ==
    /\ w[c].pc = "assign" /\ w'[c].resetFailed =>
          /\ w'[c].pc = "done"
          /\ w'[c].attempts = w[c].attempts
          /\ w'[c].dbCalls = w[c].dbCalls
          /\ w'[c].resets = w[c].resets
          /\ w'[c].delays = w[c].delays
          /\ w'[c].i = w[c].i
          /\ baseConn'[c] = baseConn[c]
    /\ w[c].pc = "done" /\ w[c].resetFailed => StaysReturned(c)

\* C6: when resetConn fails after an attempt that failed with a connection
\* error, the operation is over at that step: no attempt, no resetConn and
\* no backoff wait follows, whatever is left of RetryCount.
C6_StopsAtOnce == [][\A c \in ConnIds : C6_Step(c)]_vars

\* resetConn failed after the second attempt, with eight attempts left
C6_Witness ==
    \E c \in ConnIds :
        /\ w[c].pc = "done" /\ w[c].resetFailed
        /\ w[c].attempts = 2 /\ Len(w[c].delays) = 1

\* C7: an operation stopped by a failed resetConn returns the error of
\* resetConn, not the connection error of the attempt.
C7_Original ==
    \A c \in ConnIds :
        w[c].pc = "done" /\ w[c].resetFailed =>
            w[c].rerr = w[c].resetErr /\ w[c].rerr # w[c].err

\* C8: when every attempt fails with a retryable error and the context is
\* not cancelled, the operation fails after exactly RetryCount = 10
\* attempts, never calls resetConn and returns the error of the last attempt.
C8_RetryableExhausts ==
    \A c \in ConnIds :
        /\ w[c].pc = "done" /\ ~w[c].cancelled
        /\ w[c].attempts >= 1 /\ w[c].nRT = w[c].attempts
        => /\ w[c].attempts = 10
           /\ w[c].dbCalls = 10
           /\ w[c].resets = 0
           /\ w[c].rerr = w[c].err
           /\ IsRetryableError(w[c].rerr)

\* ten attempts of querySQL, all failed with a retryable error
C8_Witness ==
    \E c \in ConnIds :
        /\ w[c].pc = "done" /\ ~w[c].cancelled /\ w[c].kind = "query"
        /\ w[c].nRT = 10 /\ w[c].attempts = 10

C9_Step(c) ==
    /\ /\ w[c].pc = "decide" /\ w'[c].pc # "decide"
       /\ ~IsConnectionError(w[c].err) /\ ~IsRetryableError(w[c].err)
       => /\ w'[c].pc = "done"
          /\ w'[c].rerr = w[c].err
          /\ w'[c].attempts = w[c].attempts
          /\ w'[c].dbCalls = w[c].dbCalls
          /\ w'[c].resets = w[c].resets
          /\ w'[c].delays = w[c].delays
          /\ baseConn'[c] = baseConn[c]
    /\ /\ w[c].pc = "done" /\ w[c].err # NoErr
       /\ ~IsConnectionError(w[c].err) /\ ~IsRetryableError(w[c].err)
       => StaysReturned(c)

\* C9: an attempt that fails with an error that is neither a connection
\* error nor retryable ends the operation: no further attempt, no
\* resetConn, the same baseConn, and that error is what the caller gets; a
\* table-exists error on the first attempt costs one attempt.
C9_FatalStops == [][\A c \in ConnIds : C9_Step(c)]_vars

\* executeSQL returned table-exists after one attempt, on a pool of two
C9_Witness ==
    \E c \in ConnIds :
        /\ workerCount = 2
        /\ w[c].pc = "done" /\ w[c].kind = "execute"
        /\ w[c].attempts = 1 /\ isErrTableExists(w[c].rerr)
        /\ w[c].resets = 0 /\ baseConn[c] = w[c].h0

\* C10: the waits of querySQL are all 1 s; the j-th wait of executeSQL is
\* 2j s, so no wait of executeSQL is shorter than the one before it.
C10_Backoff ==
    \A c \in ConnIds :
        /\ w[c].kind = "query" =>
              \A j \in 1..Len(w[c].delays) : w[c].delays[j] = 1
        /\ w[c].kind = "execute" =>
              /\ \A j \in 1..Len(w[c].delays) : w[c].delays[j] = 2 * j
              /\ \A j \in 1..(Len(w[c].delays) - 1) :
                    w[c].delays[j] <= w[c].delays[j + 1]

\* executeSQL has waited 2 s, 4 s and 6 s
C10_Witness ==
    \E c \in ConnIds :
        w[c].kind = "execute" /\ w[c].delays = <<2, 4, 6>>

\* the failpoint replaces the error of the attempts of the operation on c
Injects(c) ==
    /\ w[c].kind = "execute"
    /\ failpoint.on
    /\ ParseUint(failpoint.val).ok
    /\ Len(w[c].queries) = 1
    /\ Contains(w[c].queries[1], <<"CREATE", "TABLE">>)

C12_Original ==
    [][\A c \in ConnIds :
          /\ Running(c)
          /\ w[c].cancelled \/ (w[c].pc = "decide" /\ w[c].err = ErrCanceled)
          => w'[c].resets = w[c].resets]_vars

\* C12, amended: no resetConn follows an attempt that ended with the
\* context's error, which leaves handle and base DB as they were; resetConn
\* is called only for an attempt that failed with a connection error, and is
\* called for it also when the context was cancelled after that attempt
\* returned.
C12_NoResetOnCancelError ==
    [][\A c \in ConnIds :
          /\ w[c].pc = "decide" /\ w[c].err = ErrCanceled
                => /\ w'[c].resets = w[c].resets
                   /\ w'[c].pc \in {"decide", "done"}
                   /\ baseConn'[c] = baseConn[c]
                   /\ live' = live
          /\ Running(c) /\ w'[c].resets # w[c].resets
                => /\ w[c].pc = "decide"
                   /\ IsConnectionError(w[c].err)
                   /\ w'[c].resets = w[c].resets + 1
          /\ w[c].pc = "decide" /\ IsConnectionError(w[c].err)
             /\ w'[c].pc # "decide"
                => w'[c].resets = w[c].resets + 1]_vars

\* an attempt ended with the context's error after two earlier resets, and
\* the operation ended without a third
C12_Witness ==
    \E c \in ConnIds :
        /\ w[c].pc = "done"
        /\ w[c].cancelAt = "attempt"
        /\ w[c].err = ErrCanceled
        /\ w[c].nCL = 2
        /\ w[c].resets = 2

\* C13: with the failpoint set to an error code, every attempt of
\* executeSQL on a batch of exactly one statement that contains CREATE TABLE
\* ends with the MySQL error of that code, whatever ExecuteSQL returned; on
\* any other batch, in querySQL, and with the failpoint off, the attempt
\* ends with what the database call returned.  The injected error is
\* counted, classified and retried like any other: a retryable code is tried
\* ExecRetryCount times, any other code once, and the error is returned.
C13_Failpoint ==
    \A c \in ConnIds :
        w[c].attempts >= 1 /\ w[c].pc # "fatal" =>
            /\ Injects(c) =>
                  /\ w[c].err = MySQLError(ParseUint(failpoint.val).n)
                  /\ w[c].pc = "done" =>
                        /\ counter - w[c].cnt0 = w[c].attempts
                        /\ ~w[c].cancelled =>
                              /\ w[c].rerr = w[c].err
                              /\ w[c].attempts =
                                    IF IsRetryableError(w[c].err)
                                    THEN ExecRetryCount ELSE 1
            /\ ~Injects(c) => w[c].err = w[c].dbErr

\* ExecuteSQL succeeded on a single CREATE TABLE statement, the failpoint
\* made every attempt fail with a retryable code, and the operation gave up
C13_Witness ==
    \E c \in ConnIds :
        /\ w[c].pc = "done"
        /\ Injects(c)
        /\ w[c].dbErr = NoErr
        /\ IsRetryableError(w[c].err)
        /\ w[c].attempts = ExecRetryCount
        /\ w[c].rerr = w[c].err

\* the attempts of the operation on c that ended with an error
FailedAttempts(c) ==
    IF w[c].attempts = 0 THEN 0
    ELSE IF w[c].err = NoErr THEN w[c].attempts - 1
    ELSE w[c].attempts

\* C14: executeSQL increments the execution-error counter once for every
\* failed attempt, retried or not: while it runs the counter has grown by
\* the number of failed attempts already classified, and when it has ended
\* by the number of failed attempts; a successful attempt adds nothing, and
\* querySQL never changes the counter.
C14_Counter ==
    \A c \in ConnIds :
        Started(c) /\ w[c].pc # "fatal" =>
            /\ w[c].kind = "execute" =>
                  counter - w[c].cnt0 =
                      FailedAttempts(c) - (IF w[c].pc = "decide" THEN 1 ELSE 0)
            /\ w[c].kind = "query" => counter = w[c].cnt0

\* executeSQL ended after failed attempts of every kind: a connection error
\* with a successful reset, a retryable error and an error that is not
\* retried
C14_Witness ==
    \E c \in ConnIds :
        /\ w[c].pc = "done"
        /\ w[c].kind = "execute"
        /\ w[c].nCL >= 1 /\ w[c].nRT >= 1
        /\ w[c].rerr = MySQLError(CodeTableExists)
        /\ counter - w[c].cnt0 = 3

\* a step in which resetConn returns on c
ResetStep(c) == w[c].pc = "assign" /\ w'[c].pc # "assign"

\* C15: once createConns has returned, the handle of a connection changes
\* exactly in the steps in which resetConn succeeds on it: a successful
\* resetConn replaces the handle by the one just obtained, which is open and
\* is the handle every later attempt and operation uses; a failed resetConn,
\* and every other step, leaves the handle as it was.
C15_HandleFrame ==
    [][\A c \in ConnIds :
          crPc = "returned" =>
            /\ ResetStep(c) /\ ~w'[c].resetFailed
                  => /\ baseConn'[c] # baseConn[c]
                     /\ baseConn'[c] # NilHandle
                     /\ baseConn'[c] = w[c].calls[2].h
                     /\ baseConn'[c] \in live'
            /\ ResetStep(c) /\ w'[c].resetFailed
                  => baseConn'[c] = baseConn[c]
            /\ ~ResetStep(c) => baseConn'[c] = baseConn[c]
            /\ w'[c].attempts = w[c].attempts + 1
                  => /\ w'[c].used = baseConn[c]
                     /\ w[c].resets >= 1 /\ ~w[c].resetFailed
                           => w'[c].used = w[c].calls[2].h]_vars

\* a later operation has made its first attempt on the open handle that a
\* resetConn of an earlier operation put in the place of the handle
\* createConns gave the connection
C15_Witness ==
    \E c \in 1..Len(ret.conns) :
        /\ w[c].limited
        /\ w[c].attempts = 1
        /\ w[c].resets = 0
        /\ w[c].used = baseConn[c]
        /\ w[c].used # ret.conns[c].baseConn
        /\ w[c].used \in live

\* C16: every resetConn calls ForceCloseConn on the handle the connection
\* holds and then GetBaseConn, whether or not ForceCloseConn failed; it
\* fails exactly when GetBaseConn fails, with the error of GetBaseConn, and
\* on success the connection holds the handle GetBaseConn returned.
C16_CloseThenGet ==
    [][\A c \in ConnIds :
          /\ w[c].pc = "close" /\ w'[c].pc # "close"
                => /\ w'[c].pc = "get"
                   /\ Len(w'[c].calls) = 1
                   /\ w'[c].calls[1].fn = "ForceCloseConn"
                   /\ w'[c].calls[1].h = baseConn[c]
                   /\ ~w'[c].calls[1].failed => baseConn[c] \notin live'
          /\ w[c].pc = "get" /\ w'[c].pc # "get"
                => /\ w'[c].pc = "assign"
                   /\ Len(w'[c].calls) = 2
                   /\ w'[c].calls[1] = w[c].calls[1]
                   /\ w'[c].calls[2].fn = "GetBaseConn"
          /\ ResetStep(c)
                => /\ Len(w[c].calls) = 2
                   /\ w'[c].resetFailed = w[c].calls[2].failed
                   /\ w'[c].resetErr =
                         IF w[c].calls[2].failed THEN ErrGetConn ELSE NoErr
                   /\ ~w[c].calls[2].failed
                         => /\ baseConn'[c] = w[c].calls[2].h
                            /\ w'[c].pc = "backoff"]_vars

\* ForceCloseConn failed, GetBaseConn succeeded, and the operation went on
\* to succeed on the new handle
C16_Witness ==
    \E c \in ConnIds :
        /\ w[c].pc = "done"
        /\ w[c].rerr = NoErr
        /\ w[c].resets = 1
        /\ w[c].calls[1].failed
        /\ ~w[c].calls[2].failed
        /\ w[c].used = w[c].calls[2].h

\* the place of a step in a turn of the loop
Place(pc) ==
    IF pc = "attempt" THEN 0
    ELSE IF pc = "decide" THEN 1
    ELSE IF pc = "close" THEN 2
    ELSE IF pc = "get" THEN 3
    ELSE IF pc = "assign" THEN 4
    ELSE 5

\* the steps the operation on c has left at most: six for each turn of the
\* loop not yet begun, less those taken in the present turn
Rank(c) ==
    IF ~Running(c) THEN 0
    ELSE 6 * (Params(w[c].kind).RetryCount - w[c].i) - Place(w[c].pc)

\* C17: every querySQL and executeSQL ends.  An operation never makes more
\* than 10 attempts; while it is in its retry loop it can always take its
\* next step (unless the run explores no further failure), and each step it
\* takes brings it closer to its return by at least one of at most 60
\* steps; once it has returned it makes no further attempt, resetConn or
\* wait.
C17_Terminates ==
    /\ [](\A c \in ConnIds :
            /\ w[c].attempts <= 10
            /\ w[c].resets <= w[c].attempts
            /\ Len(w[c].delays) <= w[c].attempts
            /\ Running(c) =>
                  /\ Rank(c) \in 1..60
                  /\ \/ Exited
                     \/ w[c].limited /\ spent >= faultLimit
                     \/ ENABLED (Attempt(c) \/ Decide(c) \/ ResetClose(c)
                                    \/ ResetGet(c) \/ ResetReturn(c)
                                    \/ Backoff(c)))
    /\ [][\A c \in ConnIds :
            /\ Running(c) /\ w'[c] # w[c] /\ w'[c].cancelled = w[c].cancelled
                  => Rank(c)' < Rank(c)
            /\ w[c].pc = "done" => StaysReturned(c)]_vars

\* an operation has used all its attempts on errors that are retried and
\* has returned the last of them
C17_Witness ==
    \E c \in ConnIds :
        /\ w[c].pc = "done"
        /\ w[c].attempts = 10
        /\ w[c].nRT >= 1 /\ w[c].nCL >= 1
        /\ w[c].rerr = w[c].err
        /\ w[c].rerr # NoErr

\* the connections createConns handed to the workers
Workers == IF ret.err = NoErr THEN 1..Len(ret.conns) ELSE {}

\* C18: with every worker calling its operations on its own connection, in
\* any interleaving of their steps, a resetConn on connection i gives
\* ForceCloseConn the handle connection i holds, closes no other handle and
\* changes the handle of no other connection; no step closes a handle but
\* the ForceCloseConn of a resetConn; the number of connections stays
\* workerCount.
C18_OwnHandleOnly ==
    /\ [](crPc = "returned" /\ ret.err = NoErr
              => Len(ret.conns) = workerCount)
    /\ [][/\ crPc = "returned" => ret' = ret /\ workerCount' = workerCount
          /\ crPc = "returned" =>
                live \ live' \subseteq
                    {baseConn[i] : i \in {k \in ConnIds : w[k].pc = "close"}}
          /\ \A i \in ConnIds :
               /\ w[i].pc = "close" /\ w'[i].pc # "close"
                     => /\ w'[i].calls[1].fn = "ForceCloseConn"
                        /\ w'[i].calls[1].h = baseConn[i]
                        /\ live \ live' \subseteq {baseConn[i]}
               /\ w[i].pc \in {"close", "get", "assign"} /\ w'[i] # w[i]
                     => \A j \in ConnIds \ {i} :
                          /\ baseConn'[j] = baseConn[j]
                          /\ w'[j] = w[j]]_vars

\* worker 1 has closed its handle and not yet asked for a new one while
\* worker 2, after a resetConn of its own, is about to make its next attempt
\* on the open handle it obtained
C18_Witness ==
    /\ Workers = {1, 2}
    /\ w[1].pc = "get" /\ baseConn[1] \notin live
    /\ w[2].pc = "attempt" /\ w[2].attempts = 1 /\ w[2].resets = 1
    /\ baseConn[2] = w[2].calls[2].h
    /\ baseConn[2] # ret.conns[2].baseConn
    /\ baseConn[2] \in live

\* C19: as the base DB hands out a handle no one holds at every request, no
\* two connections ever hold the same handle: not while createConns builds
\* them, not when it has returned them, and not at any point of any
\* interleaving of the workers' resetConn calls, failed ones included; nor
\* is a handle that a resetConn has obtained and not yet assigned held by
\* any connection.
C19_ExclusiveHandles ==
    /\ \A k, l \in 1..Len(crConns) :
          k # l => crConns[k].baseConn # crConns[l].baseConn
    /\ \A i, j \in Workers :
          i # j => /\ baseConn[i] # NilHandle
                   /\ baseConn[i] # baseConn[j]
                   /\ ret.conns[i].baseConn # ret.conns[j].baseConn
                   /\ w[i].got # NilHandle
                         => w[i].got # baseConn[j] /\ w[i].got # w[j].got
    /\ \A i \in Workers : w[i].got # NilHandle => w[i].got # baseConn[i]

\* both workers are inside a resetConn at once: worker 1 has obtained its new
\* handle and not yet assigned it, worker 2 has closed its handle and its
\* GetBaseConn is still to come
C19_Witness ==
    /\ Workers = {1, 2}
    /\ w[1].pc = "assign" /\ w[1].got \in live
    /\ w[2].pc = "get"
    /\ baseConn[1] \notin live
    /\ baseConn[2] \notin live

\* C20: resetConn is called once for every attempt that failed with a
\* connection error, the last attempt included, and at no other time: the
\* resets of an operation number its connection errors already classified.
\* When all 10 attempts fail with a connection error and every resetConn
\* succeeds, resetConn has run 10 times, the connection holds the open
\* handle the tenth GetBaseConn returned, on which no attempt was made, and
\* the operation returns the connection error of the tenth attempt.
C20_ResetPerConnError ==
    \A c \in ConnIds :
        /\ w[c].resets = w[c].nCL
        /\ w[c].pc \in {"backoff", "done"} /\ IsConnectionError(w[c].err)
              => w[c].resets >= 1
        /\ /\ w[c].pc = "done"
           /\ w[c].nCL = 10
           /\ ~w[c].resetFailed
           /\ ~w[c].cancelled
           => /\ w[c].attempts = 10
              /\ w[c].resets = 10
              /\ Len(w[c].calls) = 2
              /\ ~w[c].calls[2].failed
              /\ baseConn[c] = w[c].calls[2].h
              /\ baseConn[c] \in live
              /\ baseConn[c] # w[c].used
              /\ ~w[c].calls[1].failed => w[c].used \notin live
              /\ w[c].rerr = w[c].err
              /\ IsConnectionError(w[c].rerr)

\* all 10 attempts failed with a connection error and all 10 resets
\* succeeded
C20_Witness ==
    \E c \in ConnIds :
        /\ w[c].pc = "done"
        /\ w[c].nCL = 10
        /\ w[c].resets = 10
        /\ ~w[c].resetFailed
        /\ ~w[c].cancelled
        /\ IsConnectionError(w[c].rerr)
        /\ baseConn[c] \in live

====
